---- MODULE Spec2Model ----
(***************************************************************************)
(* bluezip: the ingestion-and-revision ledger (bluezip.py).                *)
(*                                                                         *)
(* The state is the sqlite database bluezip.db (tables session, game and   *)
(* file), the rows the running process has inserted but not committed,     *)
(* the wall clock, and the position of the running invocation.             *)
(*                                                                         *)
(* Python's sqlite3 connection opens a transaction implicitly before the   *)
(* first INSERT/UPDATE/DELETE and keeps it open until commit(); a          *)
(* statement that raises does not end it.  A process that exits without    *)
(* commit() loses the open transaction.                                    *)
(***************************************************************************)
EXTENDS Integers, Sequences, FiniteSets, Bags, TLC

\* ---------------------------------------------------------------- bounds
MaxSessions == 3   \* invocations that log a session row
MaxBatch == 2      \* submissions listed in one batch folder

\* ---------------------------------------------------------------- inputs
NULL      == 0
Uids      == {"u1", "u2"}
Titles    == {"T1"}
Platforms == {"Flash"}
FileNames == {"a.swf"}
Bytes     == {"x"}

\* A content tree: the files below the submission's content folder.
Contents == UNION {[P -> Bytes] : P \in SUBSET FileNames}

\* class Game: the descriptor handed to process_game.
Game == [uid : Uids, title : Titles, platform : Platforms, content_path : Contents]

\* Names of folder entries and archive members: u1 and u2 stand for
\* well-formed UUIDs, "junk" for a name util.validate_uuid turns down.
Stems == Uids \cup {"junk"}
Exts  == {"", "zip", "txt"}

\* settings.setdefault('archive_extensions', 'zip,7z')
ArchiveExtensions == {"zip", "7z"}

\* What the metadata file of a curation folder is: "none" when util.find
\* finds no meta.txt / meta.yml / meta.yaml, "malformed" when yaml.safe_load
\* raises YAMLError, "empty" for an empty file (safe_load returns None),
\* else a mapping with only Title, only Platform, or both.
MetaKinds == {"none", "malformed", "empty", "title", "platform", "full"}

\* A curation folder: whether it has a content subfolder, and its metadata.
Curations == [content : BOOLEAN, meta : MetaKinds]

\* Top-level listings of an extracted archive: a single root folder, the
\* pre-packaged layout, or a curation laid out without a root folder.
Gamezip == {"content", "content.json"}
Loose   == {"content", "meta.yaml"}
Tops    == {{n} : n \in Stems} \cup {Gamezip, Loose}

\* A path handed to process_auto.  type is what os.path.isfile / isdir say,
\* stem and ext are the two parts of its base name; of an archive, extract
\* is whether bin/7za exits with 0 and top is os.listdir of the extraction;
\* curation describes the folder game_from_curation is pointed at, tree the
\* files of the content folder, pack whether bin/trrntzip exits with 0.
Paths ==
    [type : {"dir", "file"}, stem : Stems, ext : Exts, extract : BOOLEAN,
     top : Tops, curation : Curations, tree : Contents, pack : BOOLEAN]

EmptyTree == [p \in {} |-> "x"]
Plain     == [content |-> FALSE, meta |-> "none"]
Complete  == [content |-> TRUE, meta |-> "full"]

\* Routes of a path through process_auto on which nothing below the path is
\* read, or only its top-level listing is.
Unread(e) ==
    \/ e.type = "dir" /\ e.stem = "junk"
    \/ e.type = "file" /\ e.ext = "txt"
    \/ e.ext = "zip" /\ ~e.extract
NoUid(e) ==
    \/ Unread(e)
    \/ e.ext = "zip" /\ e.top = {"junk"}
    \/ e.ext = "zip" /\ Cardinality(e.top) = 2 /\ e.stem = "junk"

\* The paths of Paths that differ in a part the code reads: a part that is
\* never read on the path's route through process_auto has one value.
Entries ==
    {e \in Paths :
        /\ (e.type = "dir") => (e.ext = "" /\ e.extract)
        /\ (e.type = "file") => e.ext # ""
        /\ (e.ext = "txt") => (e.stem = "junk" /\ e.extract)
        /\ (e.type = "dir" \/ Unread(e)) => e.top = Loose
        /\ NoUid(e) => e.curation = Plain
        /\ (e.ext = "zip" /\ Cardinality(e.top) = 1) => e.stem = "junk"
        /\ (e.ext = "zip" /\ e.top = Gamezip) => e.curation = Plain
        /\ (e.ext = "zip" /\ e.top = Loose /\ ~NoUid(e)) =>
                (e.curation.content /\ e.curation.meta # "none")
        /\ (NoUid(e) \/ (e.curation \notin {Complete, Plain})
                     \/ (e.curation = Plain /\ e.ext = "zip" /\ e.top # Gamezip))
                => (e.tree = EmptyTree /\ e.pack)}

\* Files that may lie below an htdocs root, and values of the two settings
\* cleanup_obsolete reads.
DeployedFiles == {"a.swf", "content.json"}

\* Directories: the htdocs root, the directory that holds it, the one above
\* that, a directory d below the root and a directory beside the root.
Root    == "."
Up      == ".."
Above   == "../.."
Folders == {"d", Root, Up, "../other"}

\* Content trees with a file in a folder, the submissions that carry them,
\* and the files that may lie below an htdocs root then.
NestedNames    == {"a.swf", "d/b.swf"}
TreeNames      == FileNames \cup NestedNames
NestedContents == UNION {[P -> Bytes] : P \in SUBSET NestedNames}
NestedGames    == [uid : {"u1"}, title : Titles, platform : Platforms,
                   content_path : NestedContents]
NestedFiles    == {"a.swf", "d/b.swf", "d/c.txt"}
Thresholds    == {"1", "2"}
Excludes      == {"", "*.swf"}

\* Descriptors of one id under titles that differ, the empty title (a
\* metadata file with Title: '') among them.
RenameTitles == {"", "T1", "T2"}
RenameGames  == [uid : {"u1"}, title : RenameTitles, platform : Platforms,
                 content_path : Contents]

\* The Flashpoint database util.open_db() opens: the games it knows.
FpGames == [uid \in {"u1"} |-> [title |-> "T1", platform |-> "Flash"]]

\* ---------------------------------------------------------------- state
VARIABLES
    session,   \* table session: rows [id, operation, time, rollback]
    game,      \* table game: rows [id, revision, sha256, title, platform, session]
    file,      \* table file (no key): a bag of rows [game_sha, file, sum, by]
    txn,       \* bag of file rows inserted by the running process, not committed
    now,       \* int(time.time())
    pc,        \* "idle", or "build" while main runs process_all / process_auto
    cur,       \* session token of the running invocation (NULL when idle)
    batch,     \* args.batch of the running invocation
    nsub,      \* submissions the running invocation has processed
    last,      \* history: outcome of the last process_auto / process_game / rollback
    before,    \* history: game and file tables when each BUILD session began
    entry,     \* history: the path, from_db and args.batch of the invocation's last process_auto
    setting,   \* table setting: obsolete_threshold and obsolete_exclude
    htdocs,    \* whether the running invocation was given --htdocs
    deployed,  \* the files below the htdocs root, as paths relative to it
    folders,   \* the directories there are: below the root, the root, above it
    output,    \* whether DIST_DIR of the running invocation is the destination root
    dist       \* the destination root: id -> digest of <id>.zip (NoFile when absent)

vars == <<session, game, file, txn, now, pc, cur, batch, nsub, last, before, entry,
          setting, htdocs, deployed, folders, output, dist>>

\* ------------------------------------------------- archive normalizer
\* create_torrentzip: content.json records version, uniqueId and platform.
ContentMeta(uid, platform) == <<"1", uid, platform>>

\* The build directory after the content tree is moved in and content.json
\* is written: relative path -> bytes.
BuildDir(g) ==
    [p \in {"content.json"} \cup {"content/" \o n : n \in DOMAIN g.content_path} |->
        IF p = "content.json"
        THEN ContentMeta(g.uid, g.platform)
        ELSE <<g.content_path[CHOOSE n \in DOMAIN g.content_path : "content/" \o n = p]>>]

UidCode(uid) == CASE uid = "u1" -> 0 [] uid = "u2" -> 1
ByteCode(b)  == CASE b = "x" -> 1

\* Contribution of one archive member to the digest.
MemberCode(p, bytes) ==
    IF p = "content.json" THEN UidCode(bytes[2]) ELSE ByteCode(bytes[1])

RECURSIVE SumCodes(_, _)
SumCodes(tree, paths) ==
    IF paths = {} THEN 0
    ELSE LET p == CHOOSE q \in paths : TRUE
         IN  MemberCode(p, tree[p]) + SumCodes(tree, paths \ {p})

\* util.digest(dist_file, sha256) of the canonical archive: a deterministic,
\* many-to-one function of the archive's members.  The digest is modelled as
\* an additive checksum, so that two archives with equal digests (the case
\* the UNIQUE constraint on game.sha256 is there for) exist among the inputs:
\* u1 with a.swf and u2 with no file collide.
Sha256(tree) == SumCodes(tree, DOMAIN tree)

\* ------------------------------------------------------- revision ledger
\* SELECT revision, sha256, title FROM game WHERE id = ? ORDER BY revision
\* DESC LIMIT 1: the rows the query can return (at most one).
CurrentRows(games, uid) ==
    {r \in games : r.id = uid /\ \A o \in games : o.id = uid => o.revision <= r.revision}

NoChange_Never(prev_sha256, sha256) == FALSE

\* "if prev_sha256: if prev_sha256 == sha256: no change".
NoChange(prev_sha256, sha256) == prev_sha256 = sha256

NextRevision_FromZero(prev) ==
    IF prev = {} THEN 0 ELSE (CHOOSE r \in prev : TRUE).revision + 1

\* revision of the row to insert: fetchone() or (1, None, None), then += 1
\* when a previous row exists.
NextRevision(prev) == IF prev = {} THEN 1 ELSE (CHOOSE r \in prev : TRUE).revision + 1

ManifestRows_ContentOnly(sha256, tree, by) ==
    SetToBag({[game_sha |-> sha256, file |-> p, sum |-> tree[p], by |-> by] :
                p \in DOMAIN tree \ {"content.json"}})

\* The os.walk loop over build_dir: one INSERT INTO file per file, keyed to
\* the archive digest.  "sum" stands for size, crc, md5 and sha1, all
\* functions of the file's bytes; "by" is history: the game key the
\* inserting submission went on to insert.
ManifestRows(sha256, tree, by) ==
    SetToBag({[game_sha |-> sha256, file |-> p, sum |-> tree[p], by |-> by] : p \in DOMAIN tree})

IntegrityError_OtherIdOnly(games, row) ==
    \E o \in games : \/ (o.sha256 = row.sha256 /\ o.id # row.id)
                      \/ (o.id = row.id /\ o.revision = row.revision)

IntegrityError_KeyOnly(games, row) ==
    \E o \in games : o.id = row.id /\ o.revision = row.revision

\* sqlite3.IntegrityError on INSERT INTO game: sha256 is UNIQUE and
\* (id, revision) is the PRIMARY KEY.
IntegrityError(games, row) ==
    \E o \in games : o.sha256 = row.sha256 \/ (o.id = row.id /\ o.revision = row.revision)

\* Rows of a file table keyed to one digest.
RowsFor(files, sha256) ==
    BagCardinality([r \in {x \in DOMAIN files : x.game_sha = sha256} |-> files[r]])

\* History record of the last operation: nfiles is the number of files in
\* the build directory, ngames the number of game rows a rollback deleted,
\* tmp the tempfile.mkdtemp() directories of the submission that still exist
\* when its processing ends, printed whether anything was printed for it,
\* notice whether the rename warning was printed, status the exit status of
\* the invocation (-1 while it runs), error the message of the exception or
\* of the skip, cleanup whether cleanup_obsolete got past its htdocs test,
\* obsolete the files it collected, warning whether it printed its warning,
\* title the title of the descriptor.
NoFile == -1

NoOp == [op |-> "none", result |-> "none", uid |-> "", revision |-> 0,
         sha256 |-> -1, nfiles |-> 0, target |-> NULL, ngames |-> 0,
         tmp |-> {}, printed |-> FALSE, notice |-> FALSE, status |-> -1,
         error |-> "", cleanup |-> FALSE, obsolete |-> {}, warning |-> FALSE,
         confirmed |-> FALSE, title |-> ""]

\* Python truthiness of a title column ("if prev_title and ...").
Truthy(title) == title # ""

\* "if prev_title and prev_title != game.title": the rename warning.
Renamed(prev, title) ==
    /\ prev # {}
    /\ Truthy((CHOOSE r \in prev : TRUE).title)
    /\ (CHOOSE r \in prev : TRUE).title # title

\* settings.setdefault('obsolete_threshold', '1') and ('obsolete_exclude', '')
DefaultSetting == [obsolete_threshold |-> "1", obsolete_exclude |-> ""]

\* int() of a threshold value, value.split(',') of an exclude value (the
\* modelled values hold no comma), and fnmatch.fnmatch on the modelled names.
ParseInt(v) == CASE v = "1" -> 1 [] v = "2" -> 2
Split(v) == {v}
fnmatch(rel, rule) == rule = rel \/ (rule = "*.swf" /\ rel \in {"a.swf", "d/b.swf"})

\* re.sub('^content/', '', fname)
Contentless(fname) ==
    IF \E n \in TreeNames : "content/" \o n = fname
    THEN CHOOSE n \in TreeNames : "content/" \o n = fname
    ELSE fname

Obsolete_NoExclude(files, sha, tree, exclude) ==
    {p \in {Contentless(r.file) : r \in {x \in DOMAIN files : x.game_sha = sha}} :
        p \in tree}

\* The list cleanup_obsolete collects: files of the manifest keyed to sha
\* that exist below htdocs and match no exclude rule.
Obsolete(files, sha, tree, exclude) ==
    {p \in {Contentless(r.file) : r \in {x \in DOMAIN files : x.game_sha = sha}} :
        /\ p \in tree
        /\ ~ \E rule \in Split(exclude) : fnmatch(p, rule)}

\* os.path.join(path, os.pardir) of a file or a directory: the directory
\* that holds it.
Pardir(path) ==
    CASE path \in {"d/b.swf", "d/c.txt"} -> "d"
      [] path \in {"a.swf", "content.json", "d"} -> Root
      [] path \in {Root, "../other"} -> Up
      [] path = Up -> Above

\* os.rmdir(path) succeeds: the directory is there and holds nothing.  The
\* directory above Up holds entries of its own, so os.rmdir raises there.
Rmdir(path, tree, dirs) ==
    /\ path \in dirs
    /\ ~ \E f \in tree : Pardir(f) = path
    /\ ~ \E c \in dirs : Pardir(c) = path

\* The while loop of delete_paths for one path: os.rmdir on the directory
\* above, again and again, until it raises OSError.
RECURSIVE Ascend(_, _, _)
Ascend(path, tree, dirs) ==
    LET up == Pardir(path)
    IN  IF up # Above /\ Rmdir(up, tree, dirs)
        THEN Ascend(up, tree, dirs \ {up})
        ELSE dirs

RECURSIVE AscendAll(_, _, _)
AscendAll(paths, tree, dirs) ==
    IF paths = {} THEN dirs
    ELSE LET path == CHOOSE q \in paths : TRUE
         IN  AscendAll(paths \ {path}, tree, Ascend(path, tree, dirs))

\* delete_paths(root, paths): os.remove on every path, then the directories
\* above each of them.
delete_paths(paths, tree, dirs) ==
    [deployed |-> tree \ paths, folders |-> AscendAll(paths, tree \ paths, dirs)]

\* Bluezip.cleanup_obsolete(game, sha) after its htdocs test: the warning, the
\* sys.exit(0) when nothing was collected, and the files and directories left
\* (answer is the operator's answer to 'Delete n files?').
cleanup_obsolete(files, sha, answer) ==
    LET obsolete == Obsolete(files, sha, deployed, setting.obsolete_exclude)
        left     == IF obsolete # {} /\ answer
                    THEN delete_paths(obsolete, deployed, folders)
                    ELSE [deployed |-> deployed, folders |-> folders]
    IN  [obsolete  |-> obsolete,
         warning   |-> Cardinality(obsolete) < ParseInt(setting.obsolete_threshold),
         exit      |-> obsolete = {},
         confirmed |-> obsolete # {} /\ answer,
         deployed  |-> left.deployed,
         folders   |-> left.folders]

\* outfile = os.path.join(DIST_DIR, f'{game.uid}.zip'); the canonical archive
\* is moved there, over a file of that name.
MoveToDist(files, uid, sha256) ==
    IF output THEN [files EXCEPT ![uid] = sha256] ELSE files

\* Bluezip.process_game, reached from process_all / process_auto with a
\* resolved descriptor g, when bin/trrntzip exits with 0.
process_game(g, answer) ==
    LET prev     == CurrentRows(game, g.uid)
        tree     == BuildDir(g)
        sha256   == Sha256(tree)
        revision == NextRevision(prev)
        row      == [id |-> g.uid, revision |-> revision, sha256 |-> sha256,
                     title |-> g.title, platform |-> g.platform, session |-> cur]
        rows     == ManifestRows(sha256, tree, <<g.uid, revision, cur>>)
        \* util.shutil_move(dist, outfile), before the digests are compared
        moved    == MoveToDist(dist, g.uid, sha256)
        out      == [NoOp EXCEPT !.op = "process_game", !.uid = g.uid, !.title = g.title,
                                 !.sha256 = sha256, !.nfiles = Cardinality(DOMAIN tree),
                                 !.printed = TRUE]
    IN  IF prev # {} /\ NoChange((CHOOSE r \in prev : TRUE).sha256, sha256)
        THEN \* "no change": returns with tmp in place
             /\ last' = [out EXCEPT !.result = "Unchanged", !.tmp = {"build"}]
             /\ dist' = moved
             /\ UNCHANGED <<game, file, txn, deployed, folders>>
        ELSE IF IntegrityError(game, row)
        THEN \* the file INSERTs stay in the open transaction; returns with
             \* tmp in place
             /\ txn' = txn (+) rows
             /\ last' = [out EXCEPT !.result = "Rejected", !.revision = revision,
                                    !.notice = Renamed(prev, g.title), !.tmp = {"build"}]
             /\ dist' = moved
             /\ UNCHANGED <<game, file, deployed, folders>>
        ELSE \* db.commit() commits everything the connection has pending;
             \* shutil.rmtree(tmp); "if revision == 1: self.cleanup_obsolete"
             LET committed == file (+) txn (+) rows
                 accepted  == [out EXCEPT !.result = "Accepted", !.revision = revision,
                                          !.notice = Renamed(prev, g.title)]
                 c         == cleanup_obsolete(committed, sha256, answer)
             IN  /\ game' = game \cup {row}
                 /\ dist' = moved
                 /\ file' = committed
                 /\ txn' = EmptyBag
                 /\ IF revision = 1 /\ htdocs
                    THEN /\ deployed' = c.deployed
                         /\ folders' = c.folders
                         /\ last' = [accepted EXCEPT !.cleanup = TRUE,
                                                     !.confirmed = c.confirmed,
                                                     !.obsolete = c.obsolete,
                                                     !.warning = c.warning,
                                                     !.status = IF c.exit THEN 0 ELSE -1]
                    ELSE /\ deployed' = deployed
                         /\ folders' = folders
                         /\ last' = accepted

\* ---------------------------------------------------------- submissions
\* util.validate_uuid and util.extension (None is "") on the modelled names.
validate_uuid(name) == name \in Uids
extension(e) == IF e.ext \in ArchiveExtensions THEN e.ext ELSE ""

\* util.is_gamezip: set(entries) == {'content', 'content.json'}
is_gamezip(entries) == entries = Gamezip

NoGame == [uid |-> "", title |-> "", platform |-> "", content_path |-> EmptyTree]
NoPath == [type |-> "", stem |-> "", ext |-> "", extract |-> TRUE, top |-> {},
           curation |-> Plain, tree |-> EmptyTree, pack |-> TRUE]
NoEntry == [path |-> NoPath, from_db |-> FALSE, batch |-> FALSE]

\* A call that raised, and a call that returned a descriptor.
Raise(class, msg) == [raised |-> class, error |-> msg, game |-> NoGame]
Return(g) == [raised |-> "", error |-> "", game |-> g]

\* Keys of the mapping yaml.safe_load returns for a metadata file.
MetaKeys(meta) ==
    CASE meta = "title"    -> {"Title"}
      [] meta = "platform" -> {"Platform"}
      [] meta = "full"     -> {"Title", "Platform"}

\* game_from_curation(uid, curation).  An empty metadata file makes
\* safe_load return None, and "'Title' in None" raises TypeError.
game_from_curation(uid, curation, tree) ==
    IF ~curation.content THEN Raise("ValueError", "Missing content folder")
    ELSE IF curation.meta = "none" THEN Raise("ValueError", "Missing metadata")
    ELSE IF curation.meta = "malformed" THEN Raise("ValueError", "Malformed metadata")
    ELSE IF curation.meta = "empty"
    THEN Raise("TypeError", "argument of type 'NoneType' is not iterable")
    ELSE IF "Title" \notin MetaKeys(curation.meta) \/ "Platform" \notin MetaKeys(curation.meta)
    THEN Raise("ValueError", "Incomplete metadata")
    ELSE Return([uid |-> uid, title |-> "T1", platform |-> "Flash", content_path |-> tree])

\* game_from_fp_database(uid, content_path): title and platform come from the
\* Flashpoint database, the content path is the path itself.
game_from_fp_database(uid, tree) ==
    IF uid \notin DOMAIN FpGames THEN Raise("ValueError", "No game found by UUID")
    ELSE Return([uid |-> uid, title |-> FpGames[uid].title,
                 platform |-> FpGames[uid].platform, content_path |-> tree])

\* process_game_from_path up to the call of process_game.  The content
\* folder of an archive in the pre-packaged layout holds the files of the
\* tree and so no content subfolder: as a curation it is Plain.
process_game_from_path(uid, e, from_db) ==
    IF from_db THEN game_from_fp_database(uid, e.tree)
    ELSE game_from_curation(uid, e.curation, e.tree)

\* process_archive up to the call of process_game: tmp is what is left of
\* its mkdtemp() directory, skipped whether it printed an error and returned.
process_archive(e, from_db) ==
    IF ~e.extract
    THEN Raise("CalledProcessError", "bin/7za") @@ [skipped |-> FALSE, tmp |-> {"extract"}]
    ELSE LET uid == IF Cardinality(e.top) = 1 THEN CHOOSE n \in e.top : TRUE ELSE e.stem
         IN  IF ~validate_uuid(uid)
             THEN [raised |-> "", game |-> NoGame, skipped |-> TRUE, tmp |-> {"extract"},
                   error |-> IF Cardinality(e.top) = 1
                             THEN "Root folder not a valid UUID"
                             ELSE "No root folder and archive filename not a valid UUID"]
             ELSE \* try: process_game_from_path ... finally: shutil.rmtree(tmp)
                  process_game_from_path(uid, e, from_db) @@ [skipped |-> FALSE, tmp |-> {}]

\* process_auto up to the call of process_game: printed is whether the
\* "archive" / "folder" line was printed, skipped whether it returned without
\* reaching process_game_from_path.
process_auto(e, from_db) ==
    IF e.type = "file" /\ extension(e) # ""
    THEN process_archive(e, from_db) @@ [printed |-> TRUE]
    ELSE IF e.type # "dir" \/ ~validate_uuid(e.stem)
    THEN [raised |-> "", error |-> "", game |-> NoGame, skipped |-> TRUE, tmp |-> {},
          printed |-> FALSE]
    ELSE process_game_from_path(e.stem, e, from_db)
            @@ [skipped |-> FALSE, tmp |-> {}, printed |-> TRUE]

\* ------------------------------------------------------------- sessions
\* log_session: INSERT INTO session (id, user, operation, time); commit.
LogSession(sessions, id, operation, time) ==
    sessions \cup {[id |-> id, operation |-> operation, time |-> time, rollback |-> NULL]}

\* os.urandom(6).hex(): a token no earlier session has.
FreshSession == Cardinality(session) + 1

RollbackCandidates_Marked(sessions) ==
    {s \in sessions : /\ s.operation # "ROLLBACK"
                      /\ \A o \in sessions : o.operation # "ROLLBACK" => o.time <= s.time}

RollbackCandidates_AnyOperation(sessions) ==
    {s \in sessions : /\ s.rollback = NULL
                      /\ \A o \in sessions : o.rollback = NULL => o.time <= s.time}

\* SELECT id, time FROM session WHERE operation != 'ROLLBACK' AND rollback IS
\* NULL ORDER BY time DESC LIMIT 1: the rows the query may return.  Rows with
\* equal time are in no defined order.
RollbackCandidates(sessions) ==
    {s \in sessions : /\ s.operation # "ROLLBACK"
                      /\ s.rollback = NULL
                      /\ \A o \in sessions :
                            (o.operation # "ROLLBACK" /\ o.rollback = NULL) => o.time <= s.time}

DeleteFiles_None(files, games, prev_session) == files

\* DELETE FROM file WHERE game_sha IN (SELECT sha256 FROM game WHERE session = ?)
DeleteFiles(files, games, prev_session) ==
    LET shas == {r.sha256 : r \in {x \in games : x.session = prev_session}}
    IN  [r \in {x \in DOMAIN files : x.game_sha \notin shas} |-> files[r]]

DeleteGames_None(games, prev_session) == games

\* DELETE FROM game WHERE session = ?
DeleteGames(games, prev_session) == {r \in games : r.session # prev_session}

\* UPDATE session SET rollback = ? WHERE id = ?
MarkRollback(sessions, sid, prev_session) ==
    {IF s.id = prev_session THEN [s EXCEPT !.rollback = sid] ELSE s : s \in sessions}

\* -------------------------------------------------------------- actions
\* bluezip.db as main creates it, no invocation running.
InitLedger ==
    /\ session = {}
    /\ game = {}
    /\ file = EmptyBag
    /\ txn = EmptyBag
    /\ now = 0
    /\ pc = "idle"
    /\ cur = NULL
    /\ batch = FALSE
    /\ nsub = 0
    /\ last = NoOp
    /\ before = <<>>
    /\ entry = NoEntry
    /\ setting = DefaultSetting
    /\ htdocs = FALSE
    /\ output = FALSE
    /\ dist = [uid \in Uids |-> NoFile]

Init == InitLedger /\ deployed = {} /\ folders = {Root, Up}

\* The clock advances between invocations.  ORDER BY time reads only the
\* order of the timestamps, so the clock is advanced one second at a time
\* and only past a second some session was logged in.
Tick ==
    /\ pc = "idle"
    /\ \E s \in session : s.time = now
    /\ now' = now + 1
    /\ UNCHANGED <<session, game, file, txn, pc, cur, batch, nsub, last, before, entry,
                   setting, htdocs, deployed, folders, output, dist>>

\* main with a path: log_session('BUILD'), then process_all (batch) or
\* process_auto (single submission); h is whether --htdocs was given, o
\* whether DIST_DIR (--output) is the destination root.
MainBuild(b, h, o) ==
    /\ pc = "idle"
    /\ Cardinality(session) < MaxSessions
    /\ session' = LogSession(session, FreshSession, "BUILD", now)
    /\ cur' = FreshSession
    /\ batch' = b
    /\ htdocs' = h
    /\ output' = o
    /\ nsub' = 0
    /\ pc' = "build"
    /\ before' = before @@ (FreshSession :> [game |-> game, file |-> file])
    /\ entry' = NoEntry
    /\ UNCHANGED <<game, file, txn, now, last, setting, deployed, folders, dist>>

\* The invocation goes on to its next entry, or the process ends.
Continue  == nsub' = nsub + 1 /\ UNCHANGED <<pc, cur, batch, htdocs, output>>
Terminate ==
    /\ pc' = "idle" /\ cur' = NULL /\ batch' = FALSE /\ nsub' = 0
    /\ htdocs' = FALSE /\ output' = FALSE

\* One entry of the batch folder (or the single path) reaches process_game.
\* cleanup_obsolete's sys.exit(0) ends the invocation.
ProcessGame(g, answer) ==
    /\ pc = "build"
    /\ nsub < (IF batch THEN MaxBatch ELSE 1)
    /\ process_game(g, answer)
    /\ IF last'.status = -1 THEN Continue ELSE Terminate
    /\ UNCHANGED <<session, now, before, entry, setting>>

\* One entry of the batch folder (process_all: from_db is never passed), or
\* the single path with args.convert as from_db.  With from_db the path is
\* taken as a folder of content files.  process_all catches ValueError;
\* main catches ValueError around the single process_auto and exits with 1;
\* any other exception ends the process with a traceback and status 1.
ProcessAuto(e, from_db) ==
    /\ pc = "build"
    /\ nsub < (IF batch THEN MaxBatch ELSE 1)
    /\ batch => ~from_db
    /\ from_db => e.curation = Plain
    /\ entry' = [path |-> e, from_db |-> from_db, batch |-> batch]
    /\ LET r == process_auto(e, from_db)
       IN  IF r.skipped
           THEN /\ last' = [NoOp EXCEPT !.op = "process_auto",
                                        !.result = IF r.printed THEN "InvalidId" ELSE "Ignored",
                                        !.error = r.error, !.printed = r.printed,
                                        !.tmp = r.tmp]
                /\ Continue
                /\ UNCHANGED <<game, file, txn, deployed, folders, dist>>
           ELSE IF r.raised = "" /\ e.pack
           THEN /\ process_game(r.game, FALSE)
                /\ IF last'.status = -1 THEN Continue ELSE Terminate
           ELSE LET \* create_torrentzip: check_call(['bin/trrntzip', ...]) raises
                    \* with process_game's tmp in place
                    packing == r.raised = ""
                    class   == IF packing THEN "CalledProcessError" ELSE r.raised
                    out     == [NoOp EXCEPT !.op = "process_auto", !.result = class,
                                            !.error = IF packing THEN "bin/trrntzip" ELSE r.error,
                                            !.printed = TRUE,
                                            !.tmp = IF packing THEN {"build"} ELSE r.tmp]
                IN  /\ IF class = "ValueError" /\ batch
                       THEN last' = out /\ Continue /\ txn' = txn
                       ELSE last' = [out EXCEPT !.status = 1] /\ Terminate /\ txn' = EmptyBag
                    /\ UNCHANGED <<game, file, deployed, folders, dist>>
    /\ UNCHANGED <<session, now, before, setting>>

\* process_all / process_auto returned: sys.exit(0).  The process ends; an
\* open transaction is lost.
Exit ==
    /\ pc = "build"
    /\ Terminate
    /\ txn' = EmptyBag
    /\ last' = [last EXCEPT !.status = 0]
    /\ UNCHANGED <<session, game, file, now, before, entry, setting, deployed, folders, dist>>

\* main with --rollback: log_session('ROLLBACK'), then rollback(db, session);
\* proceed is the operator's answer to util.prompt('Proceed?').
MainRollback(proceed) ==
    /\ pc = "idle"
    /\ Cardinality(session) < MaxSessions
    /\ LET sid    == FreshSession
           logged == LogSession(session, sid, "ROLLBACK", now)
           data   == RollbackCandidates(logged)
       IN  IF data = {}
           THEN /\ session' = logged
                /\ last' = [NoOp EXCEPT !.op = "rollback", !.result = "Nothing", !.status = 0]
                /\ UNCHANGED <<game, file>>
           ELSE \E prev \in data :
                  IF ~proceed
                  THEN /\ session' = logged
                       /\ last' = [NoOp EXCEPT !.op = "rollback", !.result = "Declined",
                                               !.target = prev.id, !.status = 0]
                       /\ UNCHANGED <<game, file>>
                  ELSE /\ file' = DeleteFiles(file, game, prev.id)
                       /\ game' = DeleteGames(game, prev.id)
                       /\ session' = MarkRollback(logged, sid, prev.id)
                       /\ last' = [NoOp EXCEPT !.op = "rollback", !.result = "RolledBack",
                                               !.target = prev.id, !.status = 0,
                                               !.ngames = Cardinality(game \ DeleteGames(game, prev.id))]
    /\ UNCHANGED <<txn, now, pc, cur, batch, nsub, before, entry, setting, htdocs, deployed, folders,
                   output, dist>>

\* main with --set KEY=VALUE: settings[key] = value (REPLACE INTO setting,
\* commit).
MainSet(key, value) ==
    /\ pc = "idle"
    /\ key \in DOMAIN setting
    /\ setting' = [setting EXCEPT ![key] = value]
    /\ UNCHANGED <<session, game, file, txn, now, pc, cur, batch, nsub, last, before,
                   entry, htdocs, deployed, folders, output, dist>>

\* The ledger: runs without --htdocs, with their output elsewhere than in the
\* destination root, over entries that resolve, and rollbacks.
Next ==
    \/ Tick
    \/ \E b \in BOOLEAN : MainBuild(b, FALSE, FALSE)
    \/ \E g \in Game : ProcessGame(g, FALSE)
    \/ Exit
    \/ \E proceed \in BOOLEAN : MainRollback(proceed)

Spec == Init /\ [][Next]_vars

\* Runs over every kind of entry a batch folder or a single path may be.
NextRun ==
    \/ \E b \in BOOLEAN : MainBuild(b, FALSE, FALSE)
    \/ \E e \in Entries, from_db \in BOOLEAN : ProcessAuto(e, from_db)
    \/ Exit

SpecRun == Init /\ [][NextRun]_vars

\* The ledger over resubmissions of one id under changing titles.
NextRename ==
    \/ Tick
    \/ \E b \in BOOLEAN : MainBuild(b, FALSE, FALSE)
    \/ \E g \in RenameGames : ProcessGame(g, FALSE)
    \/ Exit
    \/ \E proceed \in BOOLEAN : MainRollback(proceed)

SpecRename == Init /\ [][NextRename]_vars

\* The destination root under runs that write their archives to it, and
\* rollbacks.
NextDist ==
    \/ Tick
    \/ \E b \in BOOLEAN : MainBuild(b, FALSE, TRUE)
    \/ \E g \in Game : ProcessGame(g, FALSE)
    \/ Exit
    \/ \E proceed \in BOOLEAN : MainRollback(proceed)

SpecDist == Init /\ [][NextDist]_vars

\* Runs with --htdocs over a deployed tree, with the settings changed between
\* runs.
InitObsolete ==
    InitLedger /\ deployed \in SUBSET DeployedFiles /\ folders = {Root, Up}

NextObsolete ==
    \/ \E v \in Thresholds : MainSet("obsolete_threshold", v)
    \/ \E v \in Excludes : MainSet("obsolete_exclude", v)
    \/ \E b \in BOOLEAN : MainBuild(b, TRUE, FALSE)
    \/ \E g \in Game, answer \in BOOLEAN : ProcessGame(g, answer)
    \/ Exit

SpecObsolete == InitObsolete /\ [][NextObsolete]_vars

\* delete_paths below a root with a folder in it: runs with --htdocs, the
\* default settings, over submissions whose content has a file in a folder.
InitPrune ==
    /\ InitLedger
    /\ deployed \in SUBSET NestedFiles
    /\ folders \in {D \in SUBSET Folders :
                        {Root, Up} \subseteq D /\ \A f \in deployed : Pardir(f) \in D}

NextPrune ==
    \/ \E b \in BOOLEAN : MainBuild(b, TRUE, FALSE)
    \/ \E g \in NestedGames, answer \in BOOLEAN : ProcessGame(g, answer)
    \/ Exit

SpecPrune == InitPrune /\ [][NextPrune]_vars

\* ---------------------------------------------------------------- claims
\* Steps of the two operations the claims are about.
IngestStep   == pc = "build" /\ nsub' = nsub + 1
RollbackStep == pc = "idle" /\ pc' = "idle" /\ Cardinality(session') = Cardinality(session) + 1

\* Highest stored revision of an id, 0 when it has none.
MaxRevision(games, uid) ==
    IF \E r \in games : r.id = uid
    THEN CHOOSE n \in {r.revision : r \in {x \in games : x.id = uid}} :
            \A r \in games : r.id = uid => r.revision <= n
    ELSE 0

\* C1: when the last operation accepted an id with digest d, ingesting that id
\* again with an archive of digest d is Unchanged, writes no game row and no
\* file row (committed or pending), and leaves the id's maximum revision.
C1_Idempotent ==
    [][(/\ IngestStep
        /\ last.op = "process_game" /\ last.result = "Accepted"
        /\ last'.uid = last.uid /\ last'.sha256 = last.sha256)
       => (/\ last'.result = "Unchanged"
           /\ game' = game /\ file' = file /\ txn' = txn
           /\ MaxRevision(game', last.uid) = MaxRevision(game, last.uid))]_vars

C1_Witness ==
    /\ last.op = "process_game" /\ last.result = "Unchanged"
    /\ \E r \in game : /\ r.id = last.uid /\ r.sha256 = last.sha256
                       /\ r.revision = MaxRevision(game, last.uid)

\* C2: every accepted ingestion stores exactly one game row, for the submitted
\* id, with revision = the id's previous maximum stored revision + 1 (1 when
\* the id had no row).
C2_MonotonicRevisions ==
    [][(IngestStep /\ last'.result = "Accepted")
       => \E r \in game' :
            /\ r \notin game
            /\ game' = game \cup {r}
            /\ r.id = last'.uid
            /\ r.revision = MaxRevision(game, r.id) + 1]_vars

\* An acceptance at revision 2 of one id while the other id was rejected or
\* accepted before it.
C2_Witness ==
    /\ last.op = "process_game" /\ last.result = "Accepted" /\ last.revision = 2
    /\ \E r \in game : r.id = last.uid /\ r.revision = 2 /\ r.sha256 = last.sha256
    /\ \E r \in game : r.id # last.uid

\* C3: no two game rows share a digest, and no two share (id, revision).
C3_UniqueDigestAndKey ==
    \A a, b \in game :
        a # b => /\ a.sha256 # b.sha256
                 /\ <<a.id, a.revision>> # <<b.id, b.revision>>

\* A submission whose digest is already stored has just been turned away.
C3_Witness ==
    /\ last.op = "process_game" /\ last.result = "Rejected"
    /\ \E r \in game : r.sha256 = last.sha256
    /\ Cardinality(game) >= 2

\* C4: a submission whose digest is already stored under a different id writes
\* nothing: no committed file row was inserted by a submission of one id
\* while keyed to the digest of another id's game record.
C4_DuplicateContentWritesNothing ==
    \A row \in DOMAIN file :
        ~ \E g \in game : g.sha256 = row.game_sha /\ g.id # row.by[1]

\* C5: right after an accepted ingestion the file table holds exactly one row
\* per file of the build directory under the new digest.
C5_AtomicManifest ==
    (last.op = "process_game" /\ last.result = "Accepted")
        => RowsFor(file, last.sha256) = last.nfiles

\* An acceptance of a two-file build directory in a batch whose earlier
\* submission was accepted too, with rows of another digest in the table.
C5_Witness ==
    /\ last.op = "process_game" /\ last.result = "Accepted" /\ last.nfiles = 2
    /\ RowsFor(file, last.sha256) = 2
    /\ BagCardinality(file) > 2
    /\ nsub = 2

\* C6: every committed file row is keyed to the digest of an existing game
\* record and was inserted by the submission that inserted that record.
C6_ManifestWrittenWithItsRecord ==
    \A row \in DOMAIN file :
        \E g \in game : /\ g.sha256 = row.game_sha
                        /\ <<g.id, g.revision, g.session>> = row.by

\* Sessions a rollback may still target, and the newest of them by time.
Eligible(sessions) == {s \in sessions : s.operation = "BUILD" /\ s.rollback = NULL}
MostRecent(s, sessions) == \A o \in Eligible(sessions) : o.time <= s.time

\* The session row an invocation has just logged.
Logged(sessions, sessions2) == {s \in sessions2 : \A o \in sessions : o.id # s.id}

\* C7: a confirmed rollback of session S deletes exactly the game rows of S
\* and exactly the file rows keyed to their digests, changes no other game or
\* file row, and sets S's rollback field to the id of the rollback session.
C7_RollbackCorrect ==
    [][(RollbackStep /\ last'.result = "RolledBack")
       => LET S    == last'.target
              gone == {g \in game : g.session = S}
              shas == {g.sha256 : g \in gone}
          IN  /\ game' \subseteq game
              /\ game \ game' = gone
              /\ DOMAIN file' \subseteq DOMAIN file
              /\ \A row \in DOMAIN file :
                    CopiesIn(row, file') =
                        IF row.game_sha \in shas THEN 0 ELSE CopiesIn(row, file)
              /\ \E new \in Logged(session, session') :
                    /\ new.operation = "ROLLBACK"
                    /\ \E t \in session' : t.id = S /\ t.rollback = new.id
                    /\ \A o \in session : o.id # S => o \in session']_vars

\* Session 2 (two accepted games) has been rolled back; session 1's game and
\* its manifest remain.
C7_Witness ==
    /\ last.op = "rollback" /\ last.result = "RolledBack" /\ last.ngames = 2
    /\ Cardinality(game) = 1
    /\ \A g \in game : g.session # last.target /\ RowsFor(file, g.sha256) > 0
    /\ \E t \in session : t.id = last.target /\ t.rollback # NULL

C9_NoWritesAtAll ==
    [][(RollbackStep /\ Eligible(session) = {})
       => (/\ last'.result = "Nothing"
           /\ session' = session /\ game' = game /\ file' = file)]_vars

\* C9 amended: ... and leaves the game and file tables and every existing
\* session row as they were; the only write is the invocation's own ROLLBACK
\* session row.
C9_OnlyOwnSessionRow ==
    [][(RollbackStep /\ Eligible(session) = {})
       => (/\ last'.result = "Nothing"
           /\ game' = game /\ file' = file /\ txn' = txn
           /\ session \subseteq session'
           /\ session' \ session =
                {[id |-> Cardinality(session) + 1, operation |-> "ROLLBACK",
                  time |-> now, rollback |-> NULL]})]_vars

\* A rollback found nothing to do after an earlier rollback had marked the
\* only BUILD session.
C9_Witness ==
    /\ last.op = "rollback" /\ last.result = "Nothing"
    /\ \E s \in session : s.operation = "BUILD" /\ s.rollback # NULL
    /\ Eligible(session) = {}

\* C10: after a confirmed rollback of the newest eligible BUILD session S the
\* game and file tables are what they were when S's run began.  Stated for
\* runs in which no two BUILD sessions carry the same timestamp.
C10_UndoRoundTrip ==
    (/\ last.op = "rollback" /\ last.result = "RolledBack"
     /\ \A a, b \in session :
           (a.operation = "BUILD" /\ b.operation = "BUILD" /\ a # b) => a.time # b.time)
        => /\ game = before[last.target].game
           /\ file = before[last.target].file

\* The digest is stored for the id at a revision below the id's current one.
NonCurrent(games, uid, sha256) ==
    \E r \in games : /\ r.id = uid /\ r.sha256 = sha256
                      /\ r.revision < MaxRevision(games, uid)

AutoStep == pc = "build" /\ (nsub' = nsub + 1 \/ last'.status = 1)

\* What kind of submission a path is.
IsArchive(e)  == e.type = "file" /\ e.ext \in ArchiveExtensions
IsFolder(e)   == e.type = "dir" /\ e.stem \in Uids
ArchiveUid(e) == IF Cardinality(e.top) = 1 THEN CHOOSE n \in e.top : TRUE ELSE e.stem

\* The validation errors of a submission x = [path, from_db, batch]: an
\* identifier of invalid format, a curation folder that is not complete, an
\* identifier the external store does not know.
InvalidId(e) == IsArchive(e) /\ e.extract /\ ArchiveUid(e) \notin Uids
Loads(e)     == IsFolder(e) \/ (IsArchive(e) /\ e.extract /\ ArchiveUid(e) \in Uids)
InvalidCuration(x) ==
    Loads(x.path) /\ ~x.from_db /\ x.path.top # Gamezip /\ x.path.curation # Complete
Unresolvable(x) ==
    /\ Loads(x.path) /\ x.from_db
    /\ (IF IsArchive(x.path) THEN ArchiveUid(x.path) ELSE x.path.stem) \notin DOMAIN FpGames
FailsValidation(x) == InvalidId(x.path) \/ InvalidCuration(x) \/ Unresolvable(x)

\* C11: in a batch run a submission that fails validation is reported and
\* skipped: the run goes on to the next entry, and the committed game and
\* file rows are as they were.
C11_BatchSkipsInvalid ==
    [][(AutoStep /\ batch /\ FailsValidation(entry'))
       => (/\ pc' = "build" /\ nsub' = nsub + 1
           /\ last'.printed
           /\ game' = game /\ file' = file)]_vars

\* C12: a non-zero exit of bin/7za or bin/trrntzip records no game or file
\* row for the submission, and a batch run goes on to the next entry.
C12_CollaboratorFailureLocal ==
    [][(AutoStep /\ last'.result = "CalledProcessError")
       => (/\ game' = game /\ file' = file
           /\ batch => (pc' = "build" /\ nsub' = nsub + 1))]_vars

\* The validation error the loader is to report for a curation folder.
Expected(c) ==
    IF ~c.content THEN "Missing content folder"
    ELSE IF c.meta = "none" THEN "Missing metadata"
    ELSE IF c.meta = "malformed" THEN "Malformed metadata"
    ELSE "Incomplete metadata"

\* C13: for a UUID-named folder, game_from_curation returns the descriptor
\* (so that process_game runs on the folder's id and content tree) exactly
\* when the folder has a content subfolder and metadata that parses with
\* Title and Platform; otherwise it raises ValueError with the first of
\* Missing content folder, Missing metadata, Malformed metadata, Incomplete
\* metadata that applies, an empty metadata file being Incomplete metadata.
C13_LoaderContract ==
    (IsFolder(entry.path) /\ ~entry.from_db)
        => LET e == entry.path
               r == game_from_curation(e.stem, e.curation, e.tree)
           IN  IF e.curation = Complete
               THEN /\ r.raised = ""
                    /\ r.game = [uid |-> e.stem, title |-> "T1", platform |-> "Flash",
                                 content_path |-> e.tree]
                    /\ \/ last.op = "process_game" /\ last.uid = e.stem
                       \/ last.result = "CalledProcessError" /\ ~e.pack
               ELSE /\ r.raised = "ValueError" /\ r.error = Expected(e.curation)
                    /\ last.result = "ValueError" /\ last.error = Expected(e.curation)

\* Title of the id's current (maximum-revision) record.
CurrentTitle(games, uid) == (CHOOSE r \in CurrentRows(games, uid) : TRUE).title

\* C14: a submission of an id that has a record, with content stored nowhere
\* and a title other than the current record's, is Accepted at the next
\* revision, the rename notice is printed, and the id's new current record
\* holds the submitted title.
C14_RenameNoticed ==
    [][(/\ IngestStep /\ last'.op = "process_game"
        /\ CurrentRows(game, last'.uid) # {}
        /\ \A r \in game : r.sha256 # last'.sha256
        /\ CurrentTitle(game, last'.uid) # last'.title)
       => (/\ last'.result = "Accepted"
           /\ last'.revision = MaxRevision(game, last'.uid) + 1
           /\ last'.notice
           /\ CurrentTitle(game', last'.uid) = last'.title)]_vars

\* C15: every entry a run does not ingest gets a printed message.
C15_EverySkipPrinted ==
    (last.op \in {"process_auto", "process_game"} /\ last.result \notin {"Accepted", "Unchanged"})
        => last.printed

\* C16: in single-submission mode a validation error writes no game or file
\* row, and the invocation ends with a failure status.
C16_SingleModeFatal ==
    [][/\ (AutoStep /\ ~batch /\ FailsValidation(entry'))
            => (game' = game /\ file' = file)
       /\ (pc' = "idle" /\ ~entry'.batch /\ FailsValidation(entry'))
            => last'.status = 1]_vars

\* C17: an extracted archive with one top-level entry takes that entry's
\* name as id, any other takes the file name without extension; an id that
\* is no UUID is turned down; and an archive in the pre-packaged layout
\* whose id is a UUID (and, with from_db, known to the external store)
\* resolves to a descriptor, so that process_game runs on its content folder.
C17_ArchiveResolution ==
    (IsArchive(entry.path) /\ entry.path.extract)
        => LET e   == entry.path
               uid == ArchiveUid(e)
           IN  /\ uid \notin Uids => last.result = "InvalidId"
               /\ last.op = "process_game" => last.uid = uid
               /\ (/\ uid \in Uids /\ e.top = Gamezip
                   /\ entry.from_db => uid \in DOMAIN FpGames)
                    => \/ /\ last.op = "process_game"
                          /\ last.nfiles = Cardinality(DOMAIN e.tree) + 1
                       \/ last.result = "CalledProcessError" /\ ~e.pack

\* C18: when the processing of a submission ends as Accepted, Unchanged,
\* Rejected, an invalid-identifier skip or a validation failure, none of the
\* temporary directories made for it exists any more.
C18_TempDirsRemoved ==
    (last.op \in {"process_auto", "process_game"} /\ last.result # "CalledProcessError")
        => last.tmp = {}

\* C20: when --htdocs is given and a revision-1 acceptance collects fewer
\* obsolete files than obsolete_threshold, the warning is printed and the
\* invocation goes on.
C20_BelowThresholdProceeds ==
    [][(/\ pc = "build" /\ htdocs /\ game' # game
        /\ last'.result = "Accepted" /\ last'.revision = 1
        /\ Cardinality(last'.obsolete) < ParseInt(setting.obsolete_threshold))
       => (/\ last'.warning
           /\ batch => (pc' = "build" /\ nsub' = nsub + 1))]_vars

\* -------------------------------------------- claims on ledger invariants
\* C23: every game row's session is the id of a session row whose operation
\* is BUILD and whose rollback field is null; a game row a step adds carries
\* a session whose row was there before the step; no session row is deleted.
C23_GameSessionsLive ==
    [][/\ \A g \in game' : \E s \in session' :
              s.id = g.session /\ s.operation = "BUILD" /\ s.rollback = NULL
       /\ \A g \in game' \ game : \E s \in session : s.id = g.session
       /\ \A s \in session : \E s2 \in session' : s2.id = s.id]_vars

\* A game row of session 1 is stored, while a later BUILD session that had
\* stored a game row has been rolled back.
C23_Witness ==
    /\ last.op = "rollback" /\ last.result = "RolledBack" /\ last.ngames > 0
    /\ game # {}
    /\ \A g \in game : \E s \in session :
            s.id = g.session /\ s.operation = "BUILD" /\ s.rollback = NULL
    /\ \E s \in session : s.operation = "BUILD" /\ s.rollback # NULL

\* C24: for every id the stored revisions are 1..n with no gap.
C24_NoRevisionGaps ==
    \A uid \in Uids :
        {r.revision : r \in {x \in game : x.id = uid}} = 1..MaxRevision(game, uid)

\* Digest of the id's current (maximum-revision) record.
CurrentDigest(games, uid) == (CHOOSE r \in CurrentRows(games, uid) : TRUE).sha256

\* C25: <id>.zip in the destination root is created or overwritten only by a
\* submission that ends Accepted or Unchanged, so a file that is there holds
\* the id's current digest; a Rejected submission leaves the root as it was.
C25_DistHoldsCurrent ==
    [][/\ (IngestStep /\ last'.result = "Rejected") => dist' = dist
       /\ dist' # dist => last'.result \in {"Accepted", "Unchanged"}
       /\ \A uid \in Uids :
            dist'[uid] # NoFile =>
                /\ CurrentRows(game', uid) # {}
                /\ dist'[uid] = CurrentDigest(game', uid)]_vars

\* ------------------------------------------ claims on the deployed tree
\* The directories above a path, nearest first, up to Above.
RECURSIVE Ancestors(_)
Ancestors(path) ==
    IF Pardir(path) = Above THEN {} ELSE {Pardir(path)} \cup Ancestors(Pardir(path))

\* A directory removed by a step held nothing afterwards and lay above a file
\* the step deleted.
LeftEmpty ==
    \A d \in folders \ folders' :
        /\ ~ \E f \in deployed' : Pardir(f) = d
        /\ ~ \E c \in folders' : Pardir(c) = d
        /\ \E p \in deployed \ deployed' : d \in Ancestors(p)

\* C21: a file below the htdocs root is deleted only by a submission accepted
\* at revision 1 in a run given --htdocs, when its path is a manifest entry of
\* the accepted record without the leading content/, no exclude rule matches
\* it, and the operator answered yes.
C21_DeletesOnlyObsolete ==
    [][\A p \in deployed \ deployed' :
          /\ IngestStep
          /\ last'.result = "Accepted" /\ last'.revision = 1
          /\ htdocs
          /\ \E r \in DOMAIN file' :
                /\ r.game_sha = last'.sha256
                /\ r.by = <<last'.uid, 1, cur>>
                /\ Contentless(r.file) = p
          /\ ~ \E rule \in Split(setting.obsolete_exclude) : fnmatch(p, rule)
          /\ last'.confirmed]_vars
C21_Witness ==
    /\ last.result = "Accepted" /\ last.revision = 1 /\ last.confirmed
    /\ last.nfiles = 2
    /\ setting.obsolete_exclude = "*.swf"
    /\ last.obsolete = {"content.json"}
    /\ deployed = {"a.swf"}

\* C22: a step removes only directories that were left empty, above a file it
\* deleted, and never the htdocs root or a directory above the root.
C22_PrunesBelowRoot ==
    [][/\ LeftEmpty
       /\ (Root \in folders) => (Root \in folders')
       /\ (Up \in folders) => (Up \in folders')]_vars

====
